---------------------------- MODULE Spec2Model ----------------------------
(***************************************************************************)
(* Grind dashboards of ulamatta/grind_dashboard.                           *)
(*                                                                         *)
(* grind_dashboard.py computes a KPI row per sample (kpis), builds two     *)
(* chart series (cumulative, density) and renders an executive takeaway.   *)
(* app.py and streamlit_grind_comparison.py build the same two chart       *)
(* series with their own loop.                                             *)
(*                                                                         *)
(* Numbers.  The scripts compute in IEEE doubles.  The model computes in   *)
(* exact rationals <<n, d>> (d > 0, lowest terms) extended with the three  *)
(* non-finite doubles: NaN = <<0,0>>, +inf = <<1,0>>, -inf = <<-1,0>>.     *)
(* Rounding error of finite results is not modelled; zero is unsigned.     *)
(***************************************************************************)
EXTENDS Integers, Sequences, FiniteSets, TLC

VARIABLES
    raw,        \* the table of samples, in dict insertion order
    pc,         \* position in the run of the scripts
    i,          \* index of the next table entry of the loop at pc
    rows,       \* grind_dashboard.py: rows (list of KPI tuples)
    errors,     \* grind_dashboard.py: st.error calls, in order
    writes,     \* grind_dashboard.py: st.write debug calls of the KPI loop
    cum_df,     \* grind_dashboard.py: cum_df records
    dens_df,    \* grind_dashboard.py: dens_df records
    takeaway,   \* grind_dashboard.py: what the executive takeaway block did
    cum_app,    \* app.py: cum_list
    dens_app,   \* app.py: dens_list
    cum_sgc,    \* streamlit_grind_comparison.py: cum_list
    dens_sgc,   \* streamlit_grind_comparison.py: dens_list
    sales,      \* sales_forecast_app.py: its input file and its run
    fan         \* per-sample tasks run out of table order: their results

vars == <<raw, pc, i, rows, errors, writes, cum_df, dens_df, takeaway,
          cum_app, dens_app, cum_sgc, dens_sgc, sales, fan>>

---------------------------------------------------------------------------
(* Bounds of the model.                                                    *)

\* longest size / undersize sequence of a sample
MaxLen == 3

---------------------------------------------------------------------------
(* Doubles as extended rationals.                                          *)

Abs(x) == IF x < 0 THEN -x ELSE x

Sign(x) == IF x < 0 THEN -1 ELSE IF x > 0 THEN 1 ELSE 0

RECURSIVE Gcd(_, _)
Gcd(a, b) == IF b = 0 THEN a ELSE Gcd(b, a % b)

NaN == <<0, 0>>
PosInf == <<1, 0>>
NegInf == <<-1, 0>>

\* the double n/d; x/0 is the IEEE result (0/0 = NaN, x/0 = +-inf)
Norm(n, d) ==
    IF d = 0 THEN <<Sign(n), 0>>
    ELSE LET g == Gcd(Abs(n), Abs(d))
             s == IF d < 0 THEN -1 ELSE 1
         IN  <<(s * n) \div g, (s * d) \div g>>

F(k) == <<k, 1>>

IsFinite(a) == a[2] # 0
IsNaN(a) == a = NaN

FNeg(a) == <<-a[1], a[2]>>

FAdd(a, b) ==
    IF IsNaN(a) \/ IsNaN(b) THEN NaN
    ELSE IF ~IsFinite(a) /\ ~IsFinite(b) THEN (IF a = b THEN a ELSE NaN)
    ELSE IF ~IsFinite(a) THEN a
    ELSE IF ~IsFinite(b) THEN b
    ELSE Norm(a[1] * b[2] + b[1] * a[2], a[2] * b[2])

FSub(a, b) == FAdd(a, FNeg(b))

FMul(a, b) ==
    IF IsNaN(a) \/ IsNaN(b) THEN NaN
    ELSE IF ~IsFinite(a) \/ ~IsFinite(b)
         THEN <<Sign(a[1]) * Sign(b[1]), 0>>
    ELSE Norm(a[1] * b[1], a[2] * b[2])

\* numpy float64 true division: division by zero warns and yields inf / nan
FDiv(a, b) ==
    IF IsNaN(a) \/ IsNaN(b) THEN NaN
    ELSE IF ~IsFinite(a) THEN (IF ~IsFinite(b) THEN NaN
                               ELSE <<a[1] * (IF b[1] < 0 THEN -1 ELSE 1), 0>>)
    ELSE IF ~IsFinite(b) THEN F(0)
    ELSE IF b[1] = 0 THEN <<Sign(a[1]), 0>>
    ELSE Norm(a[1] * b[2], a[2] * b[1])

\* comparisons of finite doubles
FLe(a, b) == a[1] * b[2] <= b[1] * a[2]
FLt(a, b) == a[1] * b[2] < b[1] * a[2]

FAbs(a) == <<Abs(a[1]), a[2]>>


---------------------------------------------------------------------------
(* numpy.interp, as called by kpis.                                        *)

\* undersize percentages looked up by kpis: d_at(10), d_at(50), d_at(90)
Pct10 == 10
Pct50 == 50
Pct90 == 90
\* sizes (um) at which kpis reads the fines and oversize fractions
FinesSize == 100
OversSize == 1000

Min(S) == CHOOSE m \in S : \A k \in S : m <= k

\* numpy's search for the interval of x in xp: the index before the first
\* xp[k] (k >= 2) that exceeds x, the last index when there is none
SearchInterval(x, xp) ==
    LET above == {k \in 2..Len(xp) : x < xp[k]}
    IN  IF above = {} THEN Len(xp) ELSE Min(above) - 1

\* a sign slip in the interpolation formula
InterpSignSlip(x, xp, fp) ==
    LET n == Len(xp)
    IN  IF x > xp[n] THEN F(fp[n])
        ELSE IF x < xp[1] THEN F(fp[1])
        ELSE LET j == SearchInterval(x, xp)
             IN  IF j = n \/ xp[j] = x THEN F(fp[j])
                 ELSE FSub(F(fp[j]),
                           Norm((fp[j+1] - fp[j]) * (x - xp[j]), xp[j+1] - xp[j]))

\* no left / right clamp: the first or last segment is extended
InterpExtrapolate(x, xp, fp) ==
    LET n == Len(xp)
        j == IF n = 1 THEN 1
             ELSE IF x > xp[n] THEN n - 1
             ELSE IF x < xp[1] THEN 1
             ELSE SearchInterval(x, xp)
    IN  IF n = 1 \/ j = n \/ xp[j] = x \/ xp[j+1] = xp[j] THEN F(fp[j])
        ELSE FAdd(F(fp[j]),
                  Norm((fp[j+1] - fp[j]) * (x - xp[j]), xp[j+1] - xp[j]))

\* np.interp(x, xp, fp) for a non-empty xp: fp[1] left of xp, fp[n] right of
\* it, fp[j] at a knot, the chord between the two neighbours otherwise
Interp(x, xp, fp) ==
    LET n == Len(xp)
    IN  IF x > xp[n] THEN F(fp[n])
        ELSE IF x < xp[1] THEN F(fp[1])
        ELSE LET j == SearchInterval(x, xp)
             IN  IF j = n \/ xp[j] = x THEN F(fp[j])
                 ELSE FAdd(F(fp[j]),
                           Norm((fp[j+1] - fp[j]) * (x - xp[j]), xp[j+1] - xp[j]))

---------------------------------------------------------------------------
(* grind_dashboard.py: kpis.                                               *)

\* d_at(pct): the size at a cumulative percentage
d_at(pct, sizes, undersize) == Interp(pct, undersize, sizes)

NoKpi == <<>>

\* kpis with the arguments of the fines / oversize lookups transposed
kpisTransposed(sizes, undersize) ==
    IF Len(sizes) # Len(undersize)
    THEN [exc |-> "ValueError", why |-> "same length", kpi |-> NoKpi]
    ELSE IF Len(sizes) = 0
    THEN [exc |-> "ValueError", why |-> "empty", kpi |-> NoKpi]
    ELSE LET d10 == d_at(Pct10, sizes, undersize)
             d50 == d_at(Pct50, sizes, undersize)
             d90 == d_at(Pct90, sizes, undersize)
             span == FDiv(FSub(d90, d10), d50)
             fines == Interp(FinesSize, undersize, sizes)
             overs == FSub(F(100), Interp(OversSize, undersize, sizes))
         IN  [exc |-> "", why |-> "",
              kpi |-> <<d10, d50, d90, span, fines, overs>>]

\* kpis dividing as Python floats do: a zero divisor raises
kpisPyDivision(sizes, undersize) ==
    IF Len(sizes) # Len(undersize)
    THEN [exc |-> "ValueError", why |-> "same length", kpi |-> NoKpi]
    ELSE IF Len(sizes) = 0
    THEN [exc |-> "ValueError", why |-> "empty", kpi |-> NoKpi]
    ELSE LET d10 == d_at(Pct10, sizes, undersize)
             d50 == d_at(Pct50, sizes, undersize)
             d90 == d_at(Pct90, sizes, undersize)
             span == FDiv(FSub(d90, d10), d50)
             fines == Interp(FinesSize, sizes, undersize)
             overs == FSub(F(100), Interp(OversSize, sizes, undersize))
         IN  IF d50 = F(0)
             THEN [exc |-> "ZeroDivisionError", why |-> "float division by zero",
                   kpi |-> NoKpi]
             ELSE [exc |-> "", why |-> "",
                   kpi |-> <<d10, d50, d90, span, fines, overs>>]

\* kpis returning d90 where d50 belongs in the span
kpisSpanOfRange(sizes, undersize) ==
    IF Len(sizes) # Len(undersize)
    THEN [exc |-> "ValueError", why |-> "same length", kpi |-> NoKpi]
    ELSE IF Len(sizes) = 0
    THEN [exc |-> "ValueError", why |-> "empty", kpi |-> NoKpi]
    ELSE LET d10 == d_at(Pct10, sizes, undersize)
             d50 == d_at(Pct50, sizes, undersize)
             d90 == d_at(Pct90, sizes, undersize)
             span == FDiv(FSub(F(sizes[Len(sizes)]), F(sizes[1])), d50)
             fines == Interp(FinesSize, sizes, undersize)
             overs == FSub(F(100), Interp(OversSize, sizes, undersize))
         IN  [exc |-> "", why |-> "",
              kpi |-> <<d10, d50, d90, span, fines, overs>>]

\* kpis keeping a running total of the fines in the shared table of rows
kpisRunningFines(sizes, undersize) ==
    IF Len(sizes) # Len(undersize)
    THEN [exc |-> "ValueError", why |-> "same length", kpi |-> NoKpi]
    ELSE IF Len(sizes) = 0
    THEN [exc |-> "ValueError", why |-> "empty", kpi |-> NoKpi]
    ELSE LET d10 == d_at(Pct10, sizes, undersize)
             d50 == d_at(Pct50, sizes, undersize)
             d90 == d_at(Pct90, sizes, undersize)
             span == FDiv(FSub(d90, d10), d50)
             fines == FAdd(Interp(FinesSize, sizes, undersize),
                           IF rows = <<>> THEN F(0) ELSE rows[Len(rows)].Fines)
             overs == FSub(F(100), Interp(OversSize, sizes, undersize))
         IN  [exc |-> "", why |-> "",
              kpi |-> <<d10, d50, d90, span, fines, overs>>]

\* kpis(sizes, undersize): [exc, kpi]; exc = "" when the tuple is returned.
\* np.interp raises ValueError on an empty table of sample points.
kpis(sizes, undersize) ==
    IF Len(sizes) # Len(undersize)
    THEN [exc |-> "ValueError", why |-> "same length", kpi |-> NoKpi]
    ELSE IF Len(sizes) = 0
    THEN [exc |-> "ValueError", why |-> "empty", kpi |-> NoKpi]
    ELSE LET d10 == d_at(Pct10, sizes, undersize)
             d50 == d_at(Pct50, sizes, undersize)
             d90 == d_at(Pct90, sizes, undersize)
             span == FDiv(FSub(d90, d10), d50)
             fines == Interp(FinesSize, sizes, undersize)
             overs == FSub(F(100), Interp(OversSize, sizes, undersize))
         IN  [exc |-> "", why |-> "",
              kpi |-> <<d10, d50, d90, span, fines, overs>>]

---------------------------------------------------------------------------
(* The tables of samples.                                                  *)

\* the keys of raw, in insertion order
NameOrder == <<"Ditting", "Colombini T1", "Colombini T2", "Plastic Pod">>

\* the keys under which app.py and streamlit_grind_comparison.py hold the
\* same four samples
MachineLabel(name) ==
    CASE name = "Colombini T1" -> "Colombini Test 1"
      [] name = "Colombini T2" -> "Colombini Test 2"
      [] name = "Plastic Pod" -> "Plastic Pod Sample"
      [] OTHER -> name

\* sizes (um) and cumulative percentages the samples are drawn from
SizeVals == {0, 10, 100, 1000, 1500}
PctVals == {0, 5, 10, 30, 50, 90, 95, 100}

StrictlyIncreasing(s) == \A k \in 1..(Len(s) - 1) : s[k] < s[k+1]
NonDecreasing(s) == \A k \in 1..(Len(s) - 1) : s[k] <= s[k+1]

SizeSeqs ==
    UNION {{s \in [1..n -> SizeVals] : StrictlyIncreasing(s)} : n \in 0..MaxLen}
PctSeqs ==
    UNION {{s \in [1..n -> PctVals] : NonDecreasing(s)} : n \in 0..MaxLen}

\* every sample of at most MaxLen points per sequence: sizes strictly
\* increasing, undersize non-decreasing within [0,100], lengths free
Samples == {[sizes |-> s, undersize |-> u] : s \in SizeSeqs, u \in PctSeqs}

\* the size grid the dashboards' samples share, and two undersize curves
Grid == <<10, 100, 1000, 1500, 2900>>
CurveA == <<0, 50, 100, 100, 100>>
CurveB == <<10, 30, 90, 95, 100>>

Prefix(s, n) == SubSeq(s, 1, n)

\* samples of a four-sample table: a prefix of the grid against a prefix
\* of a curve, each MaxLen - 1 or MaxLen long (equal or off by one, as the
\* hardcoded tables are)
BatchSamples ==
    {[sizes |-> Prefix(Grid, a), undersize |-> Prefix(c, b)] :
        a \in {MaxLen - 1, MaxLen}, b \in {MaxLen - 1, MaxLen},
        c \in {CurveA, CurveB}}

Entry(name, sample) ==
    [name |-> name, sizes |-> sample.sizes, undersize |-> sample.undersize]

BatchTables ==
    {[k \in 1..Len(NameOrder) |-> Entry(NameOrder[k], f[k])] :
        f \in [1..Len(NameOrder) -> BatchSamples]}

SampleTables == {<<Entry(NameOrder[1], s)>> : s \in Samples}

\* the samples of the tables the per-sample tasks are run on: the two
\* curves on the whole grid, and each kind of length mismatch
FanSamples ==
    {[sizes |-> Prefix(Grid, MaxLen), undersize |-> Prefix(CurveA, MaxLen)],
     [sizes |-> Prefix(Grid, MaxLen), undersize |-> Prefix(CurveB, MaxLen)],
     [sizes |-> Prefix(Grid, MaxLen - 1), undersize |-> Prefix(CurveA, MaxLen)],
     [sizes |-> Prefix(Grid, MaxLen), undersize |-> Prefix(CurveB, MaxLen - 1)]}

FanTables ==
    {[k \in 1..Len(NameOrder) |-> Entry(NameOrder[k], f[k])] :
        f \in [1..Len(NameOrder) -> FanSamples]}

---------------------------------------------------------------------------
(* grind_dashboard.py: the KPI table loop.                                 *)

Row(name, kpi) ==
    [Grinder |-> name, D10 |-> kpi[1], D50 |-> kpi[2], D90 |-> kpi[3],
     Span |-> kpi[4], Fines |-> kpi[5], Overs |-> kpi[6]]

\* where the run goes after entry i of a loop: the next entry, or the next
\* block once the table is exhausted
AfterEntry(here, next) ==
    /\ pc' = IF i < Len(raw) THEN here ELSE next
    /\ i' = IF i < Len(raw) THEN i + 1 ELSE 1

\* the KPI loop without its try / except: the first exception ends the script
KpiStepAborting ==
    /\ pc = "kpi"
    /\ LET e == raw[i]
           r == kpis(e.sizes, e.undersize)
       IN  IF r.exc = ""
           THEN /\ rows' = Append(rows, Row(e.name, r.kpi))
                /\ AfterEntry("kpi", "charts")
           ELSE /\ pc' = "app"
                /\ i' = 1
                /\ UNCHANGED rows
    /\ UNCHANGED <<sales, fan, raw, errors, writes, cum_df, dens_df, takeaway,
                   cum_app, dens_app, cum_sgc, dens_sgc>>

\* one pass of "for name, data in raw.items()": try kpis, on any exception
\* report it with st.error and st.write and go on
KpiStep ==
    /\ pc = "kpi"
    /\ LET e == raw[i]
           r == kpis(e.sizes, e.undersize)
       IN  IF r.exc = ""
           THEN /\ rows' = Append(rows, Row(e.name, r.kpi))
                /\ UNCHANGED <<errors, writes>>
           ELSE /\ errors' = Append(errors, [what |-> "Error processing",
                                             name |-> e.name, exc |-> r.exc])
                /\ writes' = Append(writes, [name |-> e.name,
                                             sizes_len |-> Len(e.sizes),
                                             undersize_len |-> Len(e.undersize)])
                /\ UNCHANGED rows
    /\ AfterEntry("kpi", "charts")
    /\ UNCHANGED <<sales, fan, raw, cum_df, dens_df, takeaway,
                   cum_app, dens_app, cum_sgc, dens_sgc>>

---------------------------------------------------------------------------
(* The chart series.                                                       *)

MinLen(a, b) == IF Len(a) <= Len(b) THEN Len(a) ELSE Len(b)

\* np.diff(a)
Diff(a) == [k \in 1..(IF Len(a) = 0 THEN 0 ELSE Len(a) - 1) |-> a[k+1] - a[k]]

\* the midpoints without the division by two
MidsSum(sz) ==
    [k \in 1..(IF Len(sz) = 0 THEN 0 ELSE Len(sz) - 1) |-> F(sz[k] + sz[k+1])]

\* (sz[:-1] + sz[1:]) / 2
Mids(sz) ==
    [k \in 1..(IF Len(sz) = 0 THEN 0 ELSE Len(sz) - 1) |-> Norm(sz[k] + sz[k+1], 2)]

\* a / b, elementwise over two equally long integer arrays
ArrayDiv(a, b) == [k \in 1..Len(a) |-> FDiv(F(a[k]), F(b[k]))]

\* grind_dashboard.py: cumulative records of one sample (zip of sz and un)
CumRecords(name, sz, un) ==
    [k \in 1..MinLen(sz, un) |-> [Grinder |-> name, Size |-> sz[k], Undersize |-> un[k]]]

\* grind_dashboard.py: density records of one sample of equal lengths > 1
DensRecords(name, sz, un) ==
    LET mids == Mids(sz)
        density == ArrayDiv(Diff(un), Diff(sz))
    IN  [k \in 1..MinLen(mids, density) |->
            [Grinder |-> name, Size |-> mids[k], Density |-> density[k]]]

\* one pass of the chart-building loop of grind_dashboard.py: a sample
\* whose arrays differ in length is skipped
ChartStep ==
    /\ pc = "charts"
    /\ LET e == raw[i]
           sz == e.sizes
           un == e.undersize
       IN  IF Len(sz) = Len(un)
           THEN /\ cum_df' = cum_df \o CumRecords(e.name, sz, un)
                /\ dens_df' = IF Len(sz) > 1
                              THEN dens_df \o DensRecords(e.name, sz, un)
                              ELSE dens_df
           ELSE UNCHANGED <<cum_df, dens_df>>
    /\ AfterEntry("charts", "takeaway")
    /\ UNCHANGED <<sales, fan, raw, rows, errors, writes, takeaway,
                   cum_app, dens_app, cum_sgc, dens_sgc>>

\* app.py: both arrays cut to the shorter length, then the cumulative
\* records of what is left
AppCum(name, sizes0, undersize0) ==
    LET min_len == MinLen(sizes0, undersize0)
        sizes == Prefix(sizes0, min_len)
        undersize == Prefix(undersize0, min_len)
    IN  [k \in 1..MinLen(sizes, undersize) |->
            [Machine |-> name, Size |-> sizes[k], Undersize |-> undersize[k]]]

\* app.py: the density records of the arrays cut to the shorter length
AppDens(name, sizes0, undersize0) ==
    LET min_len == MinLen(sizes0, undersize0)
        sizes == Prefix(sizes0, min_len)
        undersize == Prefix(undersize0, min_len)
        d_u == Diff(undersize)
        d_s == Diff(sizes)
        mids == Mids(sizes)
        density == ArrayDiv(d_u, d_s)
    IN  [k \in 1..MinLen(mids, density) |->
            [Machine |-> name, Size |-> mids[k], Density |-> density[k]]]

\* streamlit_grind_comparison.py: "Trim to shortest length", then the
\* cumulative entries
SgcCum(name, sizes0, undersize0) ==
    LET min_len == MinLen(sizes0, undersize0)
        sizes == Prefix(sizes0, min_len)
        undersize == Prefix(undersize0, min_len)
    IN  [k \in 1..MinLen(sizes, undersize) |->
            [Machine |-> name, Size |-> sizes[k], Undersize |-> undersize[k]]]

\* streamlit_grind_comparison.py: the density approximation of the trimmed
\* arrays
SgcDens(name, sizes0, undersize0) ==
    LET min_len == MinLen(sizes0, undersize0)
        sizes == Prefix(sizes0, min_len)
        undersize == Prefix(undersize0, min_len)
        d_u == Diff(undersize)
        d_s == Diff(sizes)
        mids == Mids(sizes)
        density == ArrayDiv(d_u, d_s)
    IN  [k \in 1..MinLen(mids, density) |->
            [Machine |-> name, Size |-> mids[k], Density |-> density[k]]]

\* one pass of the loop of app.py
AppStep ==
    /\ pc = "app"
    /\ LET e == raw[i]
       IN  /\ cum_app' = cum_app \o
                  AppCum(MachineLabel(e.name), e.sizes, e.undersize)
           /\ dens_app' = dens_app \o
                  AppDens(MachineLabel(e.name), e.sizes, e.undersize)
    /\ AfterEntry("app", "sgc")
    /\ UNCHANGED <<sales, fan, raw, rows, errors, writes, cum_df, dens_df, takeaway,
                   cum_sgc, dens_sgc>>

\* one pass of the loop of streamlit_grind_comparison.py
SgcStep ==
    /\ pc = "sgc"
    /\ LET e == raw[i]
       IN  /\ cum_sgc' = cum_sgc \o
                  SgcCum(MachineLabel(e.name), e.sizes, e.undersize)
           /\ dens_sgc' = dens_sgc \o
                  SgcDens(MachineLabel(e.name), e.sizes, e.undersize)
    /\ AfterEntry("sgc", "done")
    /\ UNCHANGED <<sales, fan, raw, rows, errors, writes, cum_df, dens_df, takeaway,
                   cum_app, dens_app>>

---------------------------------------------------------------------------
(* grind_dashboard.py: the executive takeaway.                             *)

\* metrics_df.index
MetricsIndex == {rows[k].Grinder : k \in 1..Len(rows)}

\* metrics_df.loc[name], for a name of the index
Loc(name) == rows[CHOOSE k \in 1..Len(rows) : rows[k].Grinder = name]

RECURSIVE FSum(_)
FSum(vals) == IF vals = <<>> THEN F(0) ELSE FAdd(Head(vals), FSum(Tail(vals)))

\* pandas mean of one column: NaN entries are skipped, no entry left is NaN
FMean(vals) ==
    LET kept == SelectSeq(vals, LAMBDA v : ~IsNaN(v))
    IN  IF kept = <<>> THEN NaN ELSE FDiv(FSum(kept), F(Len(kept)))

\* metrics_df.loc[grinders].mean()
MeanOf(grinders) ==
    [D10 |-> FMean([k \in 1..Len(grinders) |-> Loc(grinders[k]).D10]),
     D50 |-> FMean([k \in 1..Len(grinders) |-> Loc(grinders[k]).D50]),
     D90 |-> FMean([k \in 1..Len(grinders) |-> Loc(grinders[k]).D90]),
     Span |-> FMean([k \in 1..Len(grinders) |-> Loc(grinders[k]).Span]),
     Fines |-> FMean([k \in 1..Len(grinders) |-> Loc(grinders[k]).Fines]),
     Overs |-> FMean([k \in 1..Len(grinders) |-> Loc(grinders[k]).Overs])]

\* the candidate list taking every grinder of the index but the baseline
EveryOtherGrinder ==
    SelectSeq(<<"Colombini T1", "Colombini T2", "Plastic Pod">>,
              LAMBDA g : g \in MetricsIndex)

\* [g for g in ["Colombini T1", "Colombini T2"] if g in metrics_df.index]
ColombiniGrinders ==
    SelectSeq(<<"Colombini T1", "Colombini T2">>, LAMBDA g : g \in MetricsIndex)

\* one replacement field of the f-string: the quantity, whether it goes
\* through abs() or is printed with its sign, its format specification and
\* the number handed to the formatting (the rounding to the printed digits
\* is not modelled)
Shown(what, form, fmt, value) ==
    [what |-> what, form |-> form, fmt |-> fmt, value |-> value]

NoTakeaway == [outcome |-> "pending", deltas |-> <<>>, shown |-> <<>>]

\* the takeaway gated on a non-empty table only, not on the baseline's row
TakeawayUngated ==
    /\ pc = "takeaway"
    /\ IF Len(rows) > 0 /\ "Ditting" \notin MetricsIndex
       THEN /\ takeaway' = [NoTakeaway EXCEPT !.outcome = "KeyError"]
            /\ UNCHANGED errors
       ELSE IF Len(rows) > 0
       THEN LET ditting == Loc("Ditting")
                colombini_grinders == ColombiniGrinders
            IN  IF colombini_grinders # <<>>
                THEN LET mac3_best == MeanOf(colombini_grinders)
                         delta_fines == FSub(ditting.Fines, mac3_best.Fines)
                         delta_overs == FSub(ditting.Overs, mac3_best.Overs)
                         delta_span == FSub(ditting.Span, mac3_best.Span)
                     IN  /\ takeaway' =
                              [outcome |-> "rendered",
                               deltas |-> <<delta_fines, delta_overs, delta_span>>,
                               shown |->
                                 <<Shown("ditting D50", "value", ".0f", ditting.D50),
                                   Shown("mac3_best D50", "value", ".0f", mac3_best.D50),
                                   Shown("delta_fines", "abs", ".1f", FAbs(delta_fines)),
                                   Shown("delta_overs", "abs", ".1f", FAbs(delta_overs)),
                                   Shown("delta_span", "signed", "+.2f", delta_span)>>]
                         /\ UNCHANGED errors
                ELSE /\ takeaway' = [NoTakeaway EXCEPT !.outcome = "NameError"]
                     /\ UNCHANGED errors
       ELSE /\ takeaway' = [NoTakeaway EXCEPT !.outcome = "error"]
            /\ errors' = Append(errors, [what |-> "No valid data processed",
                                         name |-> "", exc |-> ""])
    /\ pc' = "app"
    /\ i' = 1
    /\ UNCHANGED <<sales, fan, raw, rows, writes, cum_df, dens_df,
                   cum_app, dens_app, cum_sgc, dens_sgc>>

\* The block after st.subheader("Executive Takeaway").  mac3_best is bound
\* only under "if colombini_grinders:"; the line after it reads mac3_best
\* whether bound or not, and reading an unbound name raises NameError, which
\* nothing catches: the script ends there.
\* deltas = <<delta_fines, delta_overs, delta_span>>; shown = the fields of
\* the markdown text, in order.
Takeaway ==
    /\ pc = "takeaway"
    /\ IF Len(rows) > 0 /\ "Ditting" \in MetricsIndex
       THEN LET ditting == Loc("Ditting")
                colombini_grinders == ColombiniGrinders
            IN  IF colombini_grinders # <<>>
                THEN LET mac3_best == MeanOf(colombini_grinders)
                         delta_fines == FSub(ditting.Fines, mac3_best.Fines)
                         delta_overs == FSub(ditting.Overs, mac3_best.Overs)
                         delta_span == FSub(ditting.Span, mac3_best.Span)
                     IN  /\ takeaway' =
                              [outcome |-> "rendered",
                               deltas |-> <<delta_fines, delta_overs, delta_span>>,
                               shown |->
                                 <<Shown("ditting D50", "value", ".0f", ditting.D50),
                                   Shown("mac3_best D50", "value", ".0f", mac3_best.D50),
                                   Shown("delta_fines", "abs", ".1f", FAbs(delta_fines)),
                                   Shown("delta_overs", "abs", ".1f", FAbs(delta_overs)),
                                   Shown("delta_span", "signed", "+.2f", delta_span)>>]
                         /\ UNCHANGED errors
                ELSE /\ takeaway' = [NoTakeaway EXCEPT !.outcome = "NameError"]
                     /\ UNCHANGED errors
       ELSE /\ takeaway' = [NoTakeaway EXCEPT !.outcome = "error"]
            /\ errors' = Append(errors, [what |-> "No valid data processed",
                                         name |-> "", exc |-> ""])
    /\ pc' = "app"
    /\ i' = 1
    /\ UNCHANGED <<sales, fan, raw, rows, writes, cum_df, dens_df,
                   cum_app, dens_app, cum_sgc, dens_sgc>>

---------------------------------------------------------------------------
(* sales_forecast_app.py.                                                  *)

\* the columns the script reads from the CSV file
RequiredColumns == {"Record #", "Date Paid", "Amt Paid", "Title", "Store"}

\* sales when no sales script runs
NoSalesRun ==
    [file |-> "none", columns |-> {}, dates_ok |-> FALSE, enough_days |-> FALSE,
     pc |-> "none", df |-> "unset", messages |-> <<>>, fault |-> "", steps |-> <<>>]

\* the inputs of a run: the file is missing, cannot be read as CSV, or is
\* read with some of the columns; its 'Date Paid' values match the format
\* or not; the selected product has more than 10 days of sales or not
SalesInputs ==
    {[NoSalesRun EXCEPT !.file = f, !.columns = c, !.dates_ok = d,
                        !.enough_days = n, !.pc = "load"] :
        f \in {"missing", "unreadable", "ok"}, c \in SUBSET RequiredColumns,
        d \in BOOLEAN, n \in BOOLEAN}

\* load_data succeeds: read_csv, the filter on 'Date Paid' and 'Amt Paid' and
\* pd.to_datetime with the fixed format all pass
LoadSucceeds ==
    /\ sales.file = "ok"
    /\ {"Date Paid", "Amt Paid"} \subseteq sales.columns
    /\ sales.dates_ok

\* df = load_data(): any exception of the try block is reported with
\* st.error and None is returned
LoadData ==
    /\ sales.pc = "load"
    /\ sales' = IF LoadSucceeds
                THEN [sales EXCEPT !.pc = "check", !.df = "frame",
                                   !.steps = Append(@, "load_data")]
                ELSE [sales EXCEPT !.pc = "check", !.df = "None",
                                   !.steps = Append(@, "load_data"),
                                   !.messages = Append(@, "Error loading data")]
    /\ UNCHANGED <<raw, pc, i, rows, errors, writes, cum_df, dens_df, takeaway,
                   cum_app, dens_app, cum_sgc, dens_sgc, fan>>

\* if df is None: st.stop()
StopIfNone ==
    /\ sales.pc = "check"
    /\ sales' = [sales EXCEPT !.pc = IF sales.df = "None" THEN "stopped"
                                     ELSE "prepare_daily"]
    /\ UNCHANGED <<raw, pc, i, rows, errors, writes, cum_df, dens_df, takeaway,
                   cum_app, dens_app, cum_sgc, dens_sgc, fan>>

\* the script body after a step that reads the columns needs: an uncaught
\* KeyError when one is missing (the script ends there), otherwise the
\* steps done have executed and the script goes on at next
AfterStep(needs, done, next) ==
    IF needs \subseteq sales.columns
    THEN [sales EXCEPT !.pc = next, !.steps = @ \o done]
    ELSE [sales EXCEPT !.pc = "crashed", !.fault = "KeyError"]

\* daily_sales = prepare_daily_sales(df)
PrepareDaily ==
    /\ sales.pc = "prepare_daily"
    /\ sales' = AfterStep({"Record #", "Date Paid", "Amt Paid"},
                          <<"prepare_daily_sales">>, "prepare_monthly")
    /\ UNCHANGED <<raw, pc, i, rows, errors, writes, cum_df, dens_df, takeaway,
                   cum_app, dens_app, cum_sgc, dens_sgc, fan>>

\* monthly_sales = prepare_monthly_sales(df)
PrepareMonthly ==
    /\ sales.pc = "prepare_monthly"
    /\ sales' = AfterStep({"Date Paid", "Amt Paid"},
                          <<"prepare_monthly_sales">>, "tab1")
    /\ UNCHANGED <<raw, pc, i, rows, errors, writes, cum_df, dens_df, takeaway,
                   cum_app, dens_app, cum_sgc, dens_sgc, fan>>

\* with tab1: metrics, train_prophet_model(daily_sales, ...), fig1
Tab1 ==
    /\ sales.pc = "tab1"
    /\ sales' = AfterStep({}, <<"train_prophet_model", "render tab1">>, "tab2")
    /\ UNCHANGED <<raw, pc, i, rows, errors, writes, cum_df, dens_df, takeaway,
                   cum_app, dens_app, cum_sgc, dens_sgc, fan>>

\* with tab2: fig2 and the monthly table
Tab2 ==
    /\ sales.pc = "tab2"
    /\ sales' = AfterStep({}, <<"render tab2">>, "tab3")
    /\ UNCHANGED <<raw, pc, i, rows, errors, writes, cum_df, dens_df, takeaway,
                   cum_app, dens_app, cum_sgc, dens_sgc, fan>>

\* with tab3: the top products by 'Title', prepare_product_sales, and the
\* product forecast when there are more than 10 days, a warning otherwise
Tab3 ==
    /\ sales.pc = "tab3"
    /\ sales' = AfterStep({"Title", "Amt Paid", "Record #", "Date Paid"},
                          IF sales.enough_days
                          THEN <<"prepare_product_sales", "train_prophet_model",
                                 "render tab3">>
                          ELSE <<"prepare_product_sales", "warning tab3">>,
                          "tab4")
    /\ UNCHANGED <<raw, pc, i, rows, errors, writes, cum_df, dens_df, takeaway,
                   cum_app, dens_app, cum_sgc, dens_sgc, fan>>

\* with tab4: the sales by 'Store', fig4, fig5
Tab4 ==
    /\ sales.pc = "tab4"
    /\ sales' = AfterStep({"Store", "Amt Paid"}, <<"render tab4">>, "summary")
    /\ UNCHANGED <<raw, pc, i, rows, errors, writes, cum_df, dens_df, takeaway,
                   cum_app, dens_app, cum_sgc, dens_sgc, fan>>

\* the closing summary
Summary ==
    /\ sales.pc = "summary"
    /\ sales' = AfterStep({}, <<"render summary">>, "finished")
    /\ UNCHANGED <<raw, pc, i, rows, errors, writes, cum_df, dens_df, takeaway,
                   cum_app, dens_app, cum_sgc, dens_sgc, fan>>

---------------------------------------------------------------------------
(* Per-sample tasks.                                                       *)

\* fan when no task has run
NoFan == [kpi |-> {}, charts |-> {}]

\* the body of the KPI loop on entry k alone, with lists of its own
KpiTask(k) ==
    LET e == raw[k]
        r == kpis(e.sizes, e.undersize)
    IN  IF r.exc = ""
        THEN [k |-> k, rows |-> <<Row(e.name, r.kpi)>>, errors |-> <<>>,
              writes |-> <<>>]
        ELSE [k |-> k, rows |-> <<>>,
              errors |-> <<[what |-> "Error processing", name |-> e.name,
                            exc |-> r.exc]>>,
              writes |-> <<[name |-> e.name, sizes_len |-> Len(e.sizes),
                            undersize_len |-> Len(e.undersize)]>>]

\* the body of the chart loop of grind_dashboard.py on entry k alone
ChartTask(k) ==
    LET e == raw[k]
        sz == e.sizes
        un == e.undersize
    IN  IF Len(sz) = Len(un)
        THEN [k |-> k, cum |-> CumRecords(e.name, sz, un),
              dens |-> IF Len(sz) > 1 THEN DensRecords(e.name, sz, un) ELSE <<>>]
        ELSE [k |-> k, cum |-> <<>>, dens |-> <<>>]

Pending(tasks) == {k \in 1..Len(raw) : \A t \in tasks : t.k # k}

\* the KPI computation of any sample not yet computed, whatever the others
\* have done; the tasks are run on the table the script has gone through,
\* so that the results of both are at hand
FanKpi ==
    /\ pc = "done"
    /\ \E k \in Pending(fan.kpi) :
          fan' = [fan EXCEPT !.kpi = @ \cup {KpiTask(k)}]
    /\ UNCHANGED <<sales, raw, pc, i, rows, errors, writes, cum_df, dens_df,
                   takeaway, cum_app, dens_app, cum_sgc, dens_sgc>>

\* the series computation of any sample not yet computed
FanCharts ==
    /\ pc = "done"
    /\ \E k \in Pending(fan.charts) :
          fan' = [fan EXCEPT !.charts = @ \cup {ChartTask(k)}]
    /\ UNCHANGED <<sales, raw, pc, i, rows, errors, writes, cum_df, dens_df,
                   takeaway, cum_app, dens_app, cum_sgc, dens_sgc>>

---------------------------------------------------------------------------
(* The runs.  The three scripts are run one after the other over the same  *)
(* table: grind_dashboard.py (KPI loop, chart loop, takeaway), app.py,     *)
(* streamlit_grind_comparison.py.                                          *)

Start ==
    /\ sales = NoSalesRun
    /\ fan = NoFan
    /\ pc = "kpi"
    /\ i = 1
    /\ rows = <<>>
    /\ errors = <<>>
    /\ writes = <<>>
    /\ cum_df = <<>>
    /\ dens_df = <<>>
    /\ takeaway = NoTakeaway
    /\ cum_app = <<>>
    /\ dens_app = <<>>
    /\ cum_sgc = <<>>
    /\ dens_sgc = <<>>

\* a table of the four named samples
Init == raw \in BatchTables /\ Start

\* a table of one sample, drawn from every sample within the bounds
InitSample == raw \in SampleTables /\ Start

Next == KpiStep \/ ChartStep \/ Takeaway \/ AppStep \/ SgcStep

\* a run of sales_forecast_app.py on one of its inputs; no grind script runs
InitSales ==
    /\ sales \in SalesInputs
    /\ fan = NoFan
    /\ raw = <<>>
    /\ pc = "none"
    /\ i = 1
    /\ rows = <<>>
    /\ errors = <<>>
    /\ writes = <<>>
    /\ cum_df = <<>>
    /\ dens_df = <<>>
    /\ takeaway = NoTakeaway
    /\ cum_app = <<>>
    /\ dens_app = <<>>
    /\ cum_sgc = <<>>
    /\ dens_sgc = <<>>

NextSales ==
    \/ LoadData
    \/ StopIfNone
    \/ PrepareDaily
    \/ PrepareMonthly
    \/ Tab1
    \/ Tab2
    \/ Tab3
    \/ Tab4
    \/ Summary

SpecSales == InitSales /\ [][NextSales]_vars

Spec == Init /\ [][Next]_vars

\* the scripts, then the per-sample computations again as tasks in any order
InitFanOut == raw \in FanTables /\ Start

NextFanOut ==
    \/ KpiStep
    \/ ChartStep
    \/ Takeaway
    \/ AppStep
    \/ SgcStep
    \/ FanKpi
    \/ FanCharts

SpecFanOut == InitFanOut /\ [][NextFanOut]_vars

SpecSample == InitSample /\ [][Next]_vars

---------------------------------------------------------------------------
(* Properties.                                                             *)

\* entry k has been through the KPI loop / the chart loop of a script
KpiDone(k) == pc # "kpi" \/ i > k
ChartDone(k) == pc \notin {"kpi", "charts"} \/ (pc = "charts" /\ i > k)
AppDone(k) == pc \in {"sgc", "done"} \/ (pc = "app" /\ i > k)
SgcDone(k) == pc = "done" \/ (pc = "sgc" /\ i > k)

RowsOf(name) == SelectSeq(rows, LAMBDA r : r.Grinder = name)
ErrorsOf(name) ==
    SelectSeq(errors, LAMBDA e : e.what = "Error processing" /\ e.name = name)
OfGrinder(recs, name) == SelectSeq(recs, LAMBDA r : r.Grinder = name)
OfMachine(recs, name) == SelectSeq(recs, LAMBDA r : r.Machine = MachineLabel(name))

Mismatched(e) == Len(e.sizes) # Len(e.undersize)

\* the samples kpis has no reason to reject: equal lengths, at least a point
WellFormed(e) == Len(e.sizes) = Len(e.undersize) /\ Len(e.sizes) >= 1

\* a valid sample: equal lengths >= 2, sizes strictly increasing, undersize
\* non-decreasing within [0,100]
ValidSample(e) ==
    /\ Len(e.sizes) = Len(e.undersize)
    /\ Len(e.sizes) >= 2
    /\ StrictlyIncreasing(e.sizes)
    /\ NonDecreasing(e.undersize)
    /\ \A k \in 1..Len(e.undersize) : e.undersize[k] \in 0..100

\* C1 (as claimed): a sample whose two sequences differ in length is
\* reported as a data-integrity error by whatever processes it, and nothing
\* computed from the sample cut to the shorter length is emitted: no KPI
\* row, and no cumulative or density record in grind_dashboard.py, app.py
\* or streamlit_grind_comparison.py.
C1_NoSilentTruncation ==
    \A k \in 1..Len(raw) :
        Mismatched(raw[k]) =>
            /\ KpiDone(k) => /\ RowsOf(raw[k].name) = <<>>
                             /\ Len(ErrorsOf(raw[k].name)) = 1
                             /\ ErrorsOf(raw[k].name)[1].exc = "ValueError"
            /\ OfGrinder(cum_df, raw[k].name) = <<>>
            /\ OfGrinder(dens_df, raw[k].name) = <<>>
            /\ OfMachine(cum_app, raw[k].name) = <<>>
            /\ OfMachine(dens_app, raw[k].name) = <<>>
            /\ OfMachine(cum_sgc, raw[k].name) = <<>>
            /\ OfMachine(dens_sgc, raw[k].name) = <<>>

\* C2: in the KPI batch loop an error of one sample never aborts the batch:
\* every entry the loop has passed has exactly one KPI row and no error when
\* it is well formed, and no row and exactly one error naming it when it is
\* not; entries the loop has not reached yet have neither.
C2_BatchContinues ==
    \A k \in 1..Len(raw) :
        LET nrows == Len(RowsOf(raw[k].name))
            nerrs == Len(ErrorsOf(raw[k].name))
        IN  IF ~KpiDone(k) THEN nrows = 0 /\ nerrs = 0
            ELSE IF WellFormed(raw[k]) THEN nrows = 1 /\ nerrs = 0
            ELSE nrows = 0 /\ nerrs = 1

\* C2 witness: the loop is over, a failing sample came before a well-formed
\* one, and the later one has its row
C2_Witness ==
    /\ pc = "done"
    /\ \E k \in 1..Len(raw) : \E l \in (k+1)..Len(raw) :
          /\ ~WellFormed(raw[k])
          /\ WellFormed(raw[l])
          /\ Len(ErrorsOf(raw[k].name)) = 1
          /\ Len(RowsOf(raw[l].name)) = 1

\* C3 (as claimed): with a KPI row for the baseline "Ditting" and none for
\* a candidate, the takeaway ends in an EmptyCandidateSetError, with no
\* delta computed and no text rendered.
C3_EmptyCandidateSetError ==
    (/\ takeaway.outcome # "pending"
     /\ "Ditting" \in MetricsIndex
     /\ ColombiniGrinders = <<>>)
        => /\ takeaway.outcome = "EmptyCandidateSetError"
           /\ takeaway.deltas = <<>>
           /\ takeaway.shown = <<>>

\* the KPI row of entry k, once the KPI loop has appended one
HasRow(k) == KpiDone(k) /\ RowsOf(raw[k].name) # <<>>
RowAt(k) == RowsOf(raw[k].name)[1]

First(s) == s[1]
Last(s) == s[Len(s)]

\* C4: for every valid sample, also one whose undersize sequence repeats a
\* value, the KPI row has D10 <= D50 <= D90.
C4_PercentilesOrdered ==
    \A k \in 1..Len(raw) :
        (ValidSample(raw[k]) /\ KpiDone(k)) =>
            /\ HasRow(k)
            /\ FLe(RowAt(k).D10, RowAt(k).D50)
            /\ FLe(RowAt(k).D50, RowAt(k).D90)

\* C4 witness: a row of a valid sample with a repeated undersize value whose
\* three percentiles differ
C4_Witness ==
    \E k \in 1..Len(raw) :
        /\ ValidSample(raw[k])
        /\ HasRow(k)
        /\ \E j \in 1..(Len(raw[k].undersize) - 1) :
              raw[k].undersize[j] = raw[k].undersize[j+1]
        /\ FLt(RowAt(k).D10, RowAt(k).D50)
        /\ FLt(RowAt(k).D50, RowAt(k).D90)

ScenarioSizes == <<10, 100, 1000>>
ScenarioUndersize == <<0, 50, 100>>
IsScenario(e) == e.sizes = ScenarioSizes /\ e.undersize = ScenarioUndersize

\* C5 (as claimed): sizes=[10,100,1000], undersize=[0,50,100] gives D50=100,
\* fines_pct=50, oversize_pct=0 and Span=9.9.
C5_ScenarioAsClaimed ==
    \A k \in 1..Len(raw) :
        (IsScenario(raw[k]) /\ KpiDone(k)) =>
            /\ HasRow(k)
            /\ RowAt(k).D50 = F(100)
            /\ RowAt(k).Fines = F(50)
            /\ RowAt(k).Overs = F(0)
            /\ RowAt(k).Span = Norm(99, 10)

\* C5 (amended): sizes=[10,100,1000], undersize=[0,50,100] gives D10=28,
\* D50=100, D90=820, fines_pct=50, oversize_pct=0 and
\* Span=(820-28)/100=7.92.
C5_Scenario ==
    \A k \in 1..Len(raw) :
        (IsScenario(raw[k]) /\ KpiDone(k)) =>
            /\ HasRow(k)
            /\ RowAt(k).D10 = F(28)
            /\ RowAt(k).D50 = F(100)
            /\ RowAt(k).D90 = F(820)
            /\ RowAt(k).Fines = F(50)
            /\ RowAt(k).Overs = F(0)
            /\ RowAt(k).Span = Norm(792, 100)

\* C5 witness: the scenario's sample has its KPI row
C5_Witness ==
    \E k \in 1..Len(raw) : IsScenario(raw[k]) /\ HasRow(k)

\* the percentile of a row looked up for a target percentage
PercentileOf(row, pct) ==
    CASE pct = Pct10 -> row.D10
      [] pct = Pct50 -> row.D50
      [] pct = Pct90 -> row.D90

\* C6: the percentile lookup never extrapolates: for a valid sample and each
\* target of 10, 50, 90, a target below the first tabulated undersize gives
\* the first size, one above the last gives the last size, and the result
\* always lies between the first and the last size.
C6_NoExtrapolation ==
    \A k \in 1..Len(raw) :
        (ValidSample(raw[k]) /\ KpiDone(k)) =>
            /\ HasRow(k)
            /\ \A pct \in {Pct10, Pct50, Pct90} :
                  LET d == PercentileOf(RowAt(k), pct)
                      sz == raw[k].sizes
                      un == raw[k].undersize
                  IN  /\ pct < First(un) => d = F(First(sz))
                      /\ pct > Last(un) => d = F(Last(sz))
                      /\ FLe(F(First(sz)), d)
                      /\ FLe(d, F(Last(sz)))

\* C6 witness: a row of a valid sample with the target 10 below its first
\* undersize value and the target 90 above its last
C6_Witness ==
    \E k \in 1..Len(raw) :
        /\ ValidSample(raw[k])
        /\ HasRow(k)
        /\ Pct10 < First(raw[k].undersize)
        /\ Pct90 > Last(raw[k].undersize)
        /\ First(raw[k].undersize) < Last(raw[k].undersize)
        /\ RowAt(k).D10 = F(First(raw[k].sizes))
        /\ RowAt(k).D90 = F(Last(raw[k].sizes))

\* C7: interpolation is exact at knots: for a valid sample that tabulates
\* size 100, fines_pct is the undersize tabulated there; for one that
\* tabulates size 1000, oversize_pct is 100 minus the undersize there.
C7_ExactAtKnots ==
    \A k \in 1..Len(raw) :
        (ValidSample(raw[k]) /\ KpiDone(k)) =>
            /\ HasRow(k)
            /\ \A j \in 1..Len(raw[k].sizes) :
                  /\ raw[k].sizes[j] = FinesSize
                        => RowAt(k).Fines = F(raw[k].undersize[j])
                  /\ raw[k].sizes[j] = OversSize
                        => RowAt(k).Overs = F(100 - raw[k].undersize[j])

\* C7 witness: a row of a valid sample that tabulates both 100 and 1000 as
\* inner knots, with different undersize values there
C7_Witness ==
    \E k \in 1..Len(raw) :
        /\ ValidSample(raw[k])
        /\ HasRow(k)
        /\ \E j \in 1..(Len(raw[k].sizes) - 1) :
              /\ raw[k].sizes[j] = FinesSize
              /\ raw[k].sizes[j+1] = OversSize
              /\ 0 < raw[k].undersize[j]
              /\ raw[k].undersize[j] < raw[k].undersize[j+1]
              /\ RowAt(k).Fines = F(raw[k].undersize[j])
              /\ RowAt(k).Overs = F(100 - raw[k].undersize[j+1])

\* a density series holds exactly the n - 1 points of the sample sz, un:
\* point j has midpoint (sz[j] + sz[j+1]) / 2 and, sz[j+1] # sz[j], the finite
\* density d with d * (sz[j+1] - sz[j]) = un[j+1] - un[j]
IsDensityOf(dens, sz, un) ==
    /\ Len(dens) = Len(sz) - 1
    /\ \A j \in 1..Len(dens) :
          LET m == dens[j].Size
              d == dens[j].Density
          IN  /\ IsFinite(m)
              /\ 2 * m[1] = (sz[j] + sz[j+1]) * m[2]
              /\ IsFinite(d)
              /\ d[1] * (sz[j+1] - sz[j]) = (un[j+1] - un[j]) * d[2]

\* C8: for every sample of n >= 1 equal-length points each dashboard's
\* resampler emits exactly n - 1 density points with the stated midpoints
\* and densities; a single point gives an empty density series, no error.
C8_DensityPoints ==
    \A k \in 1..Len(raw) :
        WellFormed(raw[k]) =>
            LET e == raw[k]
            IN  /\ ChartDone(k) =>
                    IsDensityOf(OfGrinder(dens_df, e.name), e.sizes, e.undersize)
                /\ AppDone(k) =>
                    IsDensityOf(OfMachine(dens_app, e.name), e.sizes, e.undersize)
                /\ SgcDone(k) =>
                    IsDensityOf(OfMachine(dens_sgc, e.name), e.sizes, e.undersize)

\* C8 witness: all three scripts have processed a sample of one point, whose
\* cumulative record is there and whose density series is empty
C8_Witness ==
    /\ pc = "done"
    /\ \E k \in 1..Len(raw) :
          /\ Len(raw[k].sizes) = 1
          /\ Len(raw[k].undersize) = 1
          /\ Len(OfGrinder(cum_df, raw[k].name)) = 1
          /\ Len(OfMachine(cum_app, raw[k].name)) = 1
          /\ Len(OfMachine(cum_sgc, raw[k].name)) = 1
          /\ OfGrinder(dens_df, raw[k].name) = <<>>
          /\ OfMachine(dens_app, raw[k].name) = <<>>
          /\ OfMachine(dens_sgc, raw[k].name) = <<>>

\* the sum over a density series of density[j] * (sz[j+1] - sz[j])
RECURSIVE Reconstructed(_, _, _)
Reconstructed(dens, sz, j) ==
    IF j > Len(dens) THEN F(0)
    ELSE FAdd(FMul(dens[j].Density, F(sz[j+1] - sz[j])),
              Reconstructed(dens, sz, j + 1))

\* C9 (as claimed): for every sample with strictly increasing sizes, the sum
\* of density[j] * (size[j+1] - size[j]) over the density series emitted for
\* it equals undersize[last] - undersize[first] of the sample: in
\* grind_dashboard.py whenever it emits the series, and in
\* streamlit_grind_comparison.py.
C9_Reconstruction ==
    \A k \in 1..Len(raw) :
        LET e == raw[k]
            whole == F(Last(e.undersize) - First(e.undersize))
        IN  (StrictlyIncreasing(e.sizes) /\ Len(e.sizes) >= 1 /\ Len(e.undersize) >= 1) =>
                /\ (ChartDone(k) /\ Len(e.sizes) = Len(e.undersize)) =>
                      Reconstructed(OfGrinder(dens_df, e.name), e.sizes, 1) = whole
                /\ SgcDone(k) =>
                      Reconstructed(OfMachine(dens_sgc, e.name), e.sizes, 1) = whole

\* The identity of C9 restricted to samples of equal lengths, which no
\* script trims or skips.
ReconstructionOfEqualLengths ==
    \A k \in 1..Len(raw) :
        LET e == raw[k]
            whole == F(Last(e.undersize) - First(e.undersize))
        IN  WellFormed(e) =>
                /\ ChartDone(k) =>
                      Reconstructed(OfGrinder(dens_df, e.name), e.sizes, 1) = whole
                /\ AppDone(k) =>
                      Reconstructed(OfMachine(dens_app, e.name), e.sizes, 1) = whole
                /\ SgcDone(k) =>
                      Reconstructed(OfMachine(dens_sgc, e.name), e.sizes, 1) = whole

\* C10 (as claimed): when the interpolated D50 is 0, kpis raises nothing and
\* returns a record whose Span is not-a-number, whatever D90 - D10 is, with
\* the other five fields.
C10_SpanIsNaN ==
    \A k \in 1..Len(raw) :
        (WellFormed(raw[k]) /\ KpiDone(k)) =>
            /\ HasRow(k)
            /\ ErrorsOf(raw[k].name) = <<>>
            /\ RowAt(k).D50 = F(0) => IsNaN(RowAt(k).Span)

\* C10 (amended): when the interpolated D50 is 0, kpis raises nothing and
\* returns a record whose Span is a non-finite sentinel: not-a-number when
\* D90 - D10 = 0, the infinity of the sign of D90 - D10 otherwise; the other
\* five fields are returned as finite numbers.
C10_SpanNonFinite ==
    \A k \in 1..Len(raw) :
        (WellFormed(raw[k]) /\ KpiDone(k)) =>
            /\ HasRow(k)
            /\ ErrorsOf(raw[k].name) = <<>>
            /\ RowAt(k).D50 = F(0) =>
                  LET r == RowAt(k)
                  IN  /\ r.Span = (IF r.D90 = r.D10 THEN NaN
                                   ELSE IF FLt(r.D10, r.D90) THEN PosInf
                                   ELSE NegInf)
                      /\ \A v \in {r.D10, r.D50, r.D90, r.Fines, r.Overs} :
                            IsFinite(v)

\* C10 witness: a row with D50 = 0, D90 - D10 # 0 and an infinite Span
C10_Witness ==
    \E k \in 1..Len(raw) :
        /\ HasRow(k)
        /\ RowAt(k).D50 = F(0)
        /\ FLt(RowAt(k).D10, RowAt(k).D90)
        /\ RowAt(k).Span = PosInf

\* the candidates with a KPI row, and the sum of one KPI over them
CandidateNames == {"Colombini T1", "Colombini T2"} \cap MetricsIndex
SumOver(Col(_)) ==
    FAdd(IF "Colombini T1" \in MetricsIndex THEN Col(Loc("Colombini T1")) ELSE F(0),
         IF "Colombini T2" \in MetricsIndex THEN Col(Loc("Colombini T2")) ELSE F(0))

\* delta is the baseline's KPI minus the arithmetic mean of the KPI over
\* the candidates with a row: (baseline - delta) * count = sum
IsDeltaOf(delta, Col(_)) ==
    /\ IsFinite(delta)
    /\ FMul(FSub(Col(Loc("Ditting")), delta), F(Cardinality(CandidateNames)))
          = SumOver(Col)

FinesOf(r) == r.Fines
OversOf(r) == r.Overs
SpanOf(r) == r.Span

DeltasComputed ==
    /\ Len(takeaway.deltas) = 3
    /\ IsDeltaOf(takeaway.deltas[1], FinesOf)
    /\ IsDeltaOf(takeaway.deltas[2], OversOf)
    /\ IsDeltaOf(takeaway.deltas[3], SpanOf)

\* the text shows quantity what in the given form, with the given value
IsShown(what, form, value) ==
    \E k \in 1..Len(takeaway.shown) :
        /\ takeaway.shown[k].what = what
        /\ takeaway.shown[k].form = form
        /\ takeaway.shown[k].value = value

FormsOf(what) ==
    {takeaway.shown[k].form :
        k \in {j \in 1..Len(takeaway.shown) : takeaway.shown[j].what = what}}

\* C11 (as claimed): with a baseline row and at least one candidate row the
\* takeaway takes delta = baseline - mean over the candidates with a row for
\* fines_pct, oversize_pct and Span, and reports each of the three deltas
\* both as a signed value and as an absolute magnitude.
C11_BothFormsEach ==
    takeaway.outcome = "rendered" =>
        /\ DeltasComputed
        /\ \A k \in 1..3 :
              LET what == <<"delta_fines", "delta_overs", "delta_span">>[k]
              IN  /\ IsShown(what, "signed", takeaway.deltas[k])
                  /\ IsShown(what, "abs", FAbs(takeaway.deltas[k]))

\* C11 (amended): with a baseline row and at least one candidate row the
\* takeaway takes delta = baseline - mean over exactly the candidates with a
\* row for fines_pct, oversize_pct and Span, and reports the fines and the
\* oversize delta as absolute magnitudes only and the Span delta as a signed
\* value only.
C11_Deltas ==
    /\ takeaway.outcome = "rendered" =>
          /\ "Ditting" \in MetricsIndex
          /\ CandidateNames # {}
          /\ DeltasComputed
          /\ IsShown("delta_fines", "abs", FAbs(takeaway.deltas[1]))
          /\ IsShown("delta_overs", "abs", FAbs(takeaway.deltas[2]))
          /\ IsShown("delta_span", "signed", takeaway.deltas[3])
          /\ FormsOf("delta_fines") = {"abs"}
          /\ FormsOf("delta_overs") = {"abs"}
          /\ FormsOf("delta_span") = {"signed"}
    /\ (pc \in {"app", "sgc", "done"} /\ "Ditting" \in MetricsIndex
            /\ CandidateNames # {})
          => takeaway.outcome = "rendered"

\* C11 witness: the takeaway is rendered from two candidate rows whose
\* fines differ, with a negative fines delta, while "Plastic Pod" has a row
\* that is no candidate
C11_Witness ==
    /\ takeaway.outcome = "rendered"
    /\ Cardinality(CandidateNames) = 2
    /\ "Plastic Pod" \in MetricsIndex
    /\ Loc("Colombini T1").Fines # Loc("Colombini T2").Fines
    /\ Loc("Plastic Pod").Fines # Loc("Colombini T1").Fines
    /\ FLt(takeaway.deltas[1], F(0))
    /\ IsShown("delta_fines", "abs", FNeg(takeaway.deltas[1]))

NoDataErrors ==
    SelectSeq(errors, LAMBDA e : e.what = "No valid data processed")

BaselineEntries == {k \in 1..Len(raw) : raw[k].name = "Ditting"}

\* C15: whenever the baseline "Ditting" got no KPI row from the KPI loop
\* (its kpis call failed, alone or with every other), the takeaway renders
\* no comparison or recommendation text and shows the error "No valid data
\* processed" exactly once; before the takeaway runs the error is not shown.
C15_GatedOnBaseline ==
    (\A k \in BaselineEntries : ~WellFormed(raw[k])) =>
        IF pc \in {"kpi", "charts", "takeaway"}
        THEN takeaway.outcome = "pending" /\ NoDataErrors = <<>>
        ELSE /\ takeaway.outcome = "error"
             /\ takeaway.deltas = <<>>
             /\ takeaway.shown = <<>>
             /\ Len(NoDataErrors) = 1

\* C15 witness: the baseline failed while another sample has its row, and
\* the takeaway showed the error
C15_Witness ==
    /\ takeaway.outcome = "error"
    /\ "Ditting" \notin MetricsIndex
    /\ rows # <<>>
    /\ Len(ErrorsOf("Ditting")) = 1
    /\ Len(NoDataErrors) = 1

\* the other case of C15: no sample has a row
NoSampleSucceeded ==
    /\ takeaway.outcome = "error"
    /\ rows = <<>>
    /\ Len(NoDataErrors) = 1

\* a chart series as its sequence of (size, value) records
CumPoints(recs) == [k \in 1..Len(recs) |-> <<recs[k].Size, recs[k].Undersize>>]
DensPoints(recs) == [k \in 1..Len(recs) |-> <<recs[k].Size, recs[k].Density>>]

SeriesIdentical ==
    /\ CumPoints(cum_df) = CumPoints(cum_app)
    /\ CumPoints(cum_app) = CumPoints(cum_sgc)
    /\ DensPoints(dens_df) = DensPoints(dens_app)
    /\ DensPoints(dens_app) = DensPoints(dens_sgc)

\* C13 (as claimed): for every table, samples of unequal lengths included,
\* the cumulative and the density series built by grind_dashboard.py,
\* app.py and streamlit_grind_comparison.py are the same sequences of
\* (size, value) records.
C13_IdenticalSeries == pc = "done" => SeriesIdentical

\* The equality of C13 restricted to tables whose samples all have equal
\* lengths.
IdenticalSeriesOfEqualLengths ==
    (pc = "done" /\ \A k \in 1..Len(raw) : ~Mismatched(raw[k])) => SeriesIdentical

\* the input the claim C14 is about: no readable file, or a required
\* column missing
MissingInput == sales.file # "ok" \/ ~(RequiredColumns \subseteq sales.columns)

AfterLoad(step) == step # "load_data"

\* C14 (as claimed): when the source file is absent or unreadable or a
\* required column is missing, the run ends with a user-facing error
\* message and stops: no preparation, training or rendering step executes
\* and no raw fault escapes.
C14_MissingInputStops ==
    (sales.pc # "none" /\ MissingInput) =>
        /\ sales.fault = ""
        /\ \A k \in 1..Len(sales.steps) : ~AfterLoad(sales.steps[k])
        /\ sales.pc \notin {"load", "check"} =>
              /\ sales.pc = "stopped"
              /\ sales.messages = <<"Error loading data">>

\* The part of C14 that load_data covers: when the file is absent or
\* unreadable, 'Date Paid' or 'Amt Paid' is missing, or a date does not
\* match the format, the run shows the error once and stops before any
\* other step.
LoadFailureStops ==
    (sales.pc # "none" /\ ~LoadSucceeds) =>
        /\ sales.fault = ""
        /\ \A k \in 1..Len(sales.steps) : ~AfterLoad(sales.steps[k])
        /\ sales.pc \notin {"load", "check"} =>
              /\ sales.pc = "stopped"
              /\ sales.messages = <<"Error loading data">>


\* the result of the task of entry k
TaskOf(tasks, k) == CHOOSE t \in tasks : t.k = k

\* the join: the lists of the tasks of entries 1..n, in table order
RECURSIVE Joined(_, _, _)
Joined(tasks, Field(_), n) ==
    IF n = 0 THEN <<>>
    ELSE Joined(tasks, Field, n - 1) \o Field(TaskOf(tasks, n))

RowsField(t) == t.rows
ErrorsField(t) == t.errors
WritesField(t) == t.writes
CumField(t) == t.cum
DensField(t) == t.dens

WritesOf(name) == SelectSeq(writes, LAMBDA w : w.name = name)

\* every task run so far has produced what the sequential loops produced
\* for its sample, whichever other tasks have run
TasksAgree ==
    /\ \A t \in fan.kpi :
          /\ t.rows = RowsOf(raw[t.k].name)
          /\ t.errors = ErrorsOf(raw[t.k].name)
          /\ t.writes = WritesOf(raw[t.k].name)
    /\ \A t \in fan.charts :
          /\ t.cum = OfGrinder(cum_df, raw[t.k].name)
          /\ t.dens = OfGrinder(dens_df, raw[t.k].name)

\* once every task has run, the join is what the sequential loops built
JoinAgrees ==
    (Pending(fan.kpi) = {} /\ Pending(fan.charts) = {}) =>
        /\ Joined(fan.kpi, RowsField, Len(raw)) = rows
        /\ Joined(fan.kpi, ErrorsField, Len(raw))
               = SelectSeq(errors, LAMBDA e : e.what = "Error processing")
        /\ Joined(fan.kpi, WritesField, Len(raw)) = writes
        /\ Joined(fan.charts, CumField, Len(raw)) = cum_df
        /\ Joined(fan.charts, DensField, Len(raw)) = dens_df

C12_Joined ==
    /\ pc = "done"
    /\ Pending(fan.kpi) = {} /\ Pending(fan.charts) = {}
    /\ Len(rows) > 1
    /\ errors # <<>>

=============================================================================
